---- MODULE Spec2Model ----
(***************************************************************************)
(* Sprite atlas pipeline of super-mo: scripts/build_atlas.py (atlas        *)
(* assembly from a sheet or from per-sprite tiles, readiness marker) and   *)
(* scripts/generate_art.py (readiness gate, missing-tile listing, the      *)
(* generation driver, corner-sampled background removal).                  *)
(*                                                                         *)
(* Files on disk are modelled by their contents:                           *)
(*   a tile       [exists, size]                                           *)
(*   atlas image  [st, size, src]     st: "absent" | "partial" | "ok"      *)
(*   atlas index  [st, atlas]         atlas: sprite id -> [x, y, w, h]     *)
(*   marker       [st, production, generated_at, source]                   *)
(*                st: "absent" | "badjson" | "nonobject" | "object"        *)
(***************************************************************************)
EXTENDS Integers, Sequences, FiniteSets, TLC

VARIABLES
    layout,     \* the layout manifest (art/layout.json) as parsed by load_layout
    tiles,      \* the tile directory: sprite id -> tile file
    outImage,   \* the atlas image file (--out-image)
    outIndex,   \* the atlas index file (--out-json)
    marker,     \* the readiness marker file (art/production.json)
    clock,      \* datetime.now(): the last timestamp handed out
    last,       \* the last operation run: its arguments and its outcome
    img,        \* remove_background: the RGBA image passed in
    tolerance,  \* remove_background: the tolerance argument
    bg_color,   \* remove_background: the background colour picked
    out         \* remove_background: the image returned

vars == <<layout, tiles, outImage, outIndex, marker, clock, last,
          img, tolerance, bg_color, out>>

imageVars == <<img, tolerance, bg_color, out>>

(***************************************************************************)
(* Bounds of the model.                                                    *)
(***************************************************************************)
MaxSprites == 2      \* longest sprite list of a manifest
MaxClock == 1        \* number of marker timestamps handed out
ImgW == 3            \* width of the image given to remove_background
ImgH == 2            \* height of the image given to remove_background

Ids == {"a", "block"}
TileSizes == {<<1, 2>>, <<2, 1>>}
Coords == {0, 2}

SeqsUpTo(S, n) == UNION {[1..k -> S] : k \in 0..n}

\* the size the manifests of the model give each sprite
SizeOfId(id) == IF id = "a" THEN <<1, 2>> ELSE <<2, 1>>

\* Manifests of the pipeline runs: one well-formed sheet, any roster of
\* the two sprites, repeats included.
PipelineSprites ==
    {[id |-> "a", row |-> 0, col |-> 0, w |-> 1, h |-> 2],
     [id |-> "block", row |-> 0, col |-> 1, w |-> 2, h |-> 1]}

PipelineLayouts ==
    {[sheet |-> [width |-> 4, height |-> 4, scale |-> 2, cell |-> 2],
      sprites |-> ss] : ss \in SeqsUpTo(PipelineSprites, MaxSprites)}

\* Manifests of the assembly runs: sheets with and without the divisibility
\* invariants, rosters with and without repeated ids, sprites anywhere on
\* the grid.
AsmSheets ==
    {[width |-> 4, height |-> 4, scale |-> 2, cell |-> 2],
     [width |-> 4, height |-> 4, scale |-> 1, cell |-> 3],
     [width |-> 5, height |-> 4, scale |-> 2, cell |-> 2],
     [width |-> 4, height |-> 5, scale |-> 2, cell |-> 2],
     [width |-> 4, height |-> 4, scale |-> 2, cell |-> 3]}

AsmSprites ==
    {[id |-> i, row |-> r, col |-> c, w |-> SizeOfId(i)[1], h |-> SizeOfId(i)[2]] :
        i \in Ids, r \in Coords, c \in Coords}

AsmLayouts ==
    {[sheet |-> sh, sprites |-> ss] :
        sh \in AsmSheets, ss \in SeqsUpTo(AsmSprites, MaxSprites)}

NoTile == [exists |-> FALSE, size |-> <<0, 0>>]
TileOf(size) == [exists |-> TRUE, size |-> size]
TileDirs == [Ids -> {NoTile} \cup {TileOf(s) : s \in TileSizes}]

NoAtlas == [k \in {} |-> [x |-> 0, y |-> 0, w |-> 0, h |-> 0]]
AbsentImage == [st |-> "absent", size |-> <<0, 0>>, src |-> "none"]
PartialImage == [st |-> "partial", size |-> <<0, 0>>, src |-> "none"]
AbsentIndex == [st |-> "absent", atlas |-> NoAtlas]
PartialIndex == [st |-> "partial", atlas |-> NoAtlas]

AbsentMarker ==
    [st |-> "absent", production |-> "missing", generated_at |-> 0, source |-> "none"]
\* a marker that is not valid JSON; a truncated marker is one
BadJsonMarker ==
    [st |-> "badjson", production |-> "missing", generated_at |-> 0, source |-> "none"]
\* a marker that is valid JSON but no object: a list, a string, null
NonObjectMarker ==
    [st |-> "nonobject", production |-> "missing", generated_at |-> 0, source |-> "none"]
ObjectMarker(production, at, source) ==
    [st |-> "object", production |-> production, generated_at |-> at, source |-> source]

\* Markers found on disk before the first run; production: true is only
\* ever written by a build.
InitMarkers ==
    {AbsentMarker, BadJsonMarker, NonObjectMarker,
     ObjectMarker("missing", 0, "none"), ObjectMarker("false", 0, "hand")}

NoOp ==
    [op |-> "none", mark |-> FALSE, force |-> FALSE, input |-> <<0, 0>>,
     result |-> "none", missing |-> <<>>]

(***************************************************************************)
(* build_atlas.py                                                          *)
(***************************************************************************)

\* lines 31-35 / 75-77: the downscaled canvas size and cell
target_size(sheet) == <<sheet.width \div sheet.scale, sheet.height \div sheet.scale>>
cell(sheet) == sheet.cell \div sheet.scale

AtlasEntryBadXY(sprite, c) ==
    [x |-> sprite.row * c, y |-> sprite.col * c, w |-> sprite.w, h |-> sprite.h]

\* lines 38-45 / 91-99: one index entry
AtlasEntry(sprite, c) ==
    [x |-> sprite.col * c, y |-> sprite.row * c, w |-> sprite.w, h |-> sprite.h]

\* the loop over sprites filling the dict `atlas`; a later entry with the
\* same id replaces the earlier one
RECURSIVE AtlasLoop(_, _, _)
AtlasLoop(sprites, c, atlas) ==
    IF sprites = <<>> THEN atlas
    ELSE LET s == Head(sprites)
             next == [k \in DOMAIN atlas \cup {s.id} |->
                         IF k = s.id THEN AtlasEntry(s, c) ELSE atlas[k]]
         IN AtlasLoop(Tail(sprites), c, next)

AtlasOf(lay) == AtlasLoop(lay.sprites, cell(lay.sheet), NoAtlas)

CheckFirstTileOnly(sprites, ts) ==
    IF sprites = <<>> THEN "ok"
    ELSE LET s == Head(sprites)
         IN IF ~ts[s.id].exists THEN "FileNotFoundError"
            ELSE IF ts[s.id].size # <<s.w, s.h>> THEN "ValueError"
            ELSE "ok"

\* lines 82-90: the tile checks of the loop, in manifest order; the first
\* offending sprite raises
RECURSIVE CheckTiles(_, _)
CheckTiles(sprites, ts) ==
    IF sprites = <<>> THEN "ok"
    ELSE LET s == Head(sprites)
         IN IF ~ts[s.id].exists THEN "FileNotFoundError"
            ELSE IF ts[s.id].size # <<s.w, s.h>> THEN "ValueError"
            ELSE CheckTiles(Tail(sprites), ts)

\* lines 27-29: the sheet is opened and its size compared; <<0, 0>> stands
\* for an input path with no file
CheckSheet(sheet, input) ==
    IF input = <<0, 0>> THEN "FileNotFoundError"
    ELSE IF input # <<sheet.width, sheet.height>> THEN "ValueError"
    ELSE "ok"

\* What can go wrong in the write phase: each write either raises before
\* the file is touched (the path cannot be opened) or after it has been
\* opened for writing, which leaves it truncated or partly written.
Faults ==
    {"none", "image_open", "image_write", "index_open", "index_write",
     "marker_open", "marker_write"}

FaultStage(fault) ==
    CASE fault \in {"image_open", "image_write"} -> 1
      [] fault \in {"index_open", "index_write"} -> 2
      [] fault \in {"marker_open", "marker_write"} -> 3
      [] OTHER -> 4

\* lines 49 / 103: <image>.save(out_image). A save that raises while
\* writing leaves an existing file truncated; a file it had just created is
\* removed again by Image.save.
SaveImage(image, fault) ==
    CASE fault = "image_open" -> outImage
      [] fault = "image_write" ->
            IF outImage.st = "absent" THEN AbsentImage ELSE PartialImage
      [] OTHER -> image

\* lines 50-51 / 104-105: json.dump(atlas, handle, sort_keys=True), reached
\* only when the image was saved
WriteIndex(atlas, fault) ==
    CASE FaultStage(fault) < 2 -> outIndex
      [] fault = "index_open" -> outIndex
      [] fault = "index_write" -> PartialIndex
      [] OTHER -> [st |-> "ok", atlas |-> atlas]

\* lines 53-60 / 107-114: the marker, written last and only on request
WriteMarker(mark_production, source, fault) ==
    CASE ~mark_production -> marker
      [] FaultStage(fault) < 3 -> marker
      [] fault = "marker_open" -> marker
      [] fault = "marker_write" -> BadJsonMarker
      [] OTHER -> ObjectMarker("true", clock + 1, source)

\* lines 47-60 / 101-114: the write phase of a build whose checks passed
WriteOutputs(opname, image, atlas, mark_production, input, source, fault) ==
    /\ outImage' = SaveImage(image, fault)
    /\ outIndex' = WriteIndex(atlas, fault)
    /\ marker' = WriteMarker(mark_production, source, fault)
    /\ clock' = IF mark_production /\ FaultStage(fault) >= 3 THEN clock + 1 ELSE clock
    /\ last' = [op |-> opname, mark |-> mark_production, force |-> FALSE,
                input |-> input,
                result |-> IF fault = "none" THEN "ok" ELSE "OSError",
                missing |-> <<>>]

Rejected(opname, mark_production, input, error) ==
    /\ last' = [op |-> opname, mark |-> mark_production, force |-> FALSE,
                input |-> input, result |-> error, missing |-> <<>>]
    /\ UNCHANGED <<outImage, outIndex, marker, clock>>

\* lines 15-60
build_atlas_from_sheet(input, mark_production, fault) ==
    /\ mark_production => clock < MaxClock
    /\ FaultStage(fault) = 3 => mark_production
    /\ LET checked == CheckSheet(layout.sheet, input)
       IN IF checked # "ok"
          THEN /\ fault = "none"
               /\ Rejected("sheet", mark_production, input, checked)
          ELSE WriteOutputs("sheet",
                            [st |-> "ok", size |-> target_size(layout.sheet), src |-> "sheet"],
                            AtlasOf(layout), mark_production, input, "sheet", fault)
    /\ UNCHANGED <<layout, tiles>>
    /\ UNCHANGED imageVars

\* lines 63-114
build_atlas_from_tiles(mark_production, fault) ==
    /\ mark_production => clock < MaxClock
    /\ FaultStage(fault) = 3 => mark_production
    /\ LET checked == CheckTiles(layout.sprites, tiles)
       IN IF checked # "ok"
          THEN /\ fault = "none"
               /\ Rejected("tiles", mark_production, <<0, 0>>, checked)
          ELSE WriteOutputs("tiles",
                            [st |-> "ok", size |-> target_size(layout.sheet), src |-> "tiles"],
                            AtlasOf(layout), mark_production, <<0, 0>>, "tiles", fault)
    /\ UNCHANGED <<layout, tiles>>
    /\ UNCHANGED imageVars

(***************************************************************************)
(* generate_art.py: readiness gate and generation driver                   *)
(***************************************************************************)

\* lines 69-76: "true" / "false" are the values returned; "AttributeError"
\* is the exception that leaves the function when json.load returned
\* something without .get (only json.JSONDecodeError is caught)
is_production_ready(m) ==
    CASE m.st = "absent" -> "false"
      [] m.st = "badjson" -> "false"
      [] m.st = "nonobject" -> "AttributeError"
      [] OTHER -> IF m.production = "true" THEN "true" ELSE "false"

\* line 81
sprite_ids(lay) == [i \in 1..Len(lay.sprites) |-> lay.sprites[i].id]

\* lines 84-88: the ids, in order, with no tile file
RECURSIVE MissingLoop(_, _)
MissingLoop(ids, ts) ==
    IF ids = <<>> THEN <<>>
    ELSE IF ~ts[Head(ids)].exists
         THEN <<Head(ids)>> \o MissingLoop(Tail(ids), ts)
         ELSE MissingLoop(Tail(ids), ts)

list_missing_tiles_always_scan(lay, ts, force_full) ==
    MissingLoop(sprite_ids(lay), ts)

\* lines 79-88
list_missing_tiles(lay, ts, force_full) ==
    IF force_full THEN sprite_ids(lay) ELSE MissingLoop(sprite_ids(lay), ts)

\* line 347: the dict id -> (w, h); the last entry of an id wins
sprite_sizes(lay, id) ==
    LET at == {i \in 1..Len(lay.sprites) : lay.sprites[i].id = id}
        k == CHOOSE i \in at : \A j \in at : j <= i
    IN <<lay.sprites[k].w, lay.sprites[k].h>>

\* line 159
TILE_SPRITES == {"block"}

\* --sprite-size (lines 325-329, 359): the sizes of the raw image the provider
\* returns; <<2, 2>> is a raw image too small to crop
RawSizes == {<<1024, 1024>>, <<2, 2>>}

Min(x, y) == IF x <= y THEN x ELSE y

\* lines 167-171: the centred square of int(min(w, h) * 0.45) pixels
\* (45/100 in integers, which agrees with the float product on these sizes)
center_crop(raw) ==
    LET crop_size == (Min(raw[1], raw[2]) * 45) \div 100
    IN <<crop_size, crop_size>>

resize_image_keeps_size(raw, target, sprite_id) ==
    LET cropped == IF sprite_id \notin TILE_SPRITES THEN center_crop(raw) ELSE raw
    IN IF sprite_id \notin TILE_SPRITES /\ (cropped[1] = 0 \/ cropped[2] = 0)
       THEN <<0, 0>>
       ELSE cropped

\* lines 162-178: the size of the PNG returned, <<0, 0>> when the call
\* raises: remove_background reads pixels[0, 0] (line 143), which an empty
\* crop does not have
resize_image(raw, target, sprite_id) ==
    LET cropped == IF sprite_id \notin TILE_SPRITES THEN center_crop(raw) ELSE raw
    IN IF sprite_id \notin TILE_SPRITES /\ (cropped[1] = 0 \/ cropped[2] = 0)
       THEN <<0, 0>>
       ELSE target

\* the first sprite of `missing` whose resize_image call raises,
\* Len(missing) + 1 when none does
FirstResizeError(missing, raw, lay) ==
    LET bad == {i \in 1..Len(missing) :
                   resize_image(raw, sprite_sizes(lay, missing[i]), missing[i]) = <<0, 0>>}
    IN IF bad = {} THEN Len(missing) + 1
       ELSE CHOOSE i \in bad : \A j \in bad : i <= j

\* lines 350-365 for the first `written` sprites of `missing`: every tile
\* is the PNG resize_image returned (lines 363-364)
WriteTiles(missing, written, raw, lay, ts) ==
    [id \in Ids |->
        IF \E i \in 1..written : missing[i] = id
        THEN TileOf(resize_image(raw, sprite_sizes(lay, id), id))
        ELSE ts[id]]

\* lines 338-365: one run of the generation driver. `provided` is the
\* number of raw images the provider returned before it failed
\* (Len(missing) when it never did), `raw` their size; the runs the
\* provider cuts short are taken with images of the default size.
generate_main(force_arg, provided, raw) ==
    LET ready == IF force_arg THEN "skipped" ELSE is_production_ready(marker)
        force_full == force_arg \/ ready = "false"
        missing == list_missing_tiles(layout, tiles, force_full)
        stop == FirstResizeError(missing, raw, layout)
        written == Min(provided, stop - 1)
    IN /\ IF ready = "AttributeError"
          THEN /\ provided = 0
               /\ raw = <<1024, 1024>>
               /\ tiles' = tiles
               /\ last' = [op |-> "generate", mark |-> FALSE, force |-> force_arg,
                           input |-> <<0, 0>>, result |-> "AttributeError",
                           missing |-> <<>>]
          ELSE /\ provided <= Len(missing)
               /\ provided < Len(missing) => raw = <<1024, 1024>>
               /\ tiles' = WriteTiles(missing, written, raw, layout, tiles)
               /\ last' = [op |-> "generate", mark |-> FALSE, force |-> force_arg,
                           input |-> <<0, 0>>,
                           result |-> IF written = Len(missing) THEN "ok"
                                      ELSE IF stop <= provided THEN "IndexError"
                                      ELSE "RuntimeError",
                           missing |-> missing]
       /\ UNCHANGED <<layout, outImage, outIndex, marker, clock>>
       /\ UNCHANGED imageVars

\* a call of is_production_ready on the marker (the "check readiness" command)
check_ready ==
    /\ last' = [op |-> "is_production_ready", mark |-> FALSE, force |-> FALSE,
                input |-> <<0, 0>>, result |-> is_production_ready(marker),
                missing |-> <<>>]
    /\ UNCHANGED <<layout, tiles, outImage, outIndex, marker, clock>>
    /\ UNCHANGED imageVars

(***************************************************************************)
(* generate_art.py: remove_background                                      *)
(***************************************************************************)

\* line 137
DefaultTolerance == 30
Tolerances == {0, DefaultTolerance, DefaultTolerance + 1}

Transparent == <<0, 0, 0, 0>>
Palette ==
    {<<10, 10, 10, 255>>, <<40, 40, 40, 255>>, <<10, 100, 10, 255>>,
     <<25, 0, 39, 255>>, Transparent, <<10, 10, 10, 0>>}

Pos == (0..(ImgW - 1)) \X (0..(ImgH - 1))
TopLeft == <<0, 0>>
TopRight == <<ImgW - 1, 0>>
BottomLeft == <<0, ImgH - 1>>
BottomRight == <<ImgW - 1, ImgH - 1>>
CornerPos == {TopLeft, TopRight, BottomLeft, BottomRight}
Probe == <<1, 0>>

\* the images given to remove_background: any four corners, any pixel next
\* to the top-left corner, one colour for the rest
Images ==
    {[p \in Pos |->
        CASE p = TopLeft -> c[1]
          [] p = TopRight -> c[2]
          [] p = BottomLeft -> c[3]
          [] p = BottomRight -> c[4]
          [] p = Probe -> probe
          [] OTHER -> fill] :
        c \in Palette \X Palette \X Palette \X Palette,
        probe \in Palette, fill \in Palette}

Abs(x) == IF x < 0 THEN -x ELSE x

\* line 143
corners(pixels) ==
    <<pixels[TopLeft], pixels[TopRight], pixels[BottomLeft], pixels[BottomRight]>>

\* corners.count
Count(cs, c) == Cardinality({i \in 1..4 : cs[i] = c})

AnyCorner(cs) == {cs[i] : i \in 1..4}

\* line 145: max(set(corners), key=corners.count) returns the first element
\* of maximal count in the iteration order of the set, which the language
\* leaves to the hash table: any element of maximal count can be the one
MostCommon(cs) ==
    {c \in {cs[i] : i \in 1..4} : \A d \in {cs[i] : i \in 1..4} : Count(cs, d) <= Count(cs, c)}

MatchesInclusive(px, bg, tol) ==
    /\ Abs(px[1] - bg[1]) <= tol
    /\ Abs(px[2] - bg[2]) <= tol
    /\ Abs(px[3] - bg[3]) <= tol

\* lines 151-153
Matches(px, bg, tol) ==
    /\ Abs(px[1] - bg[1]) < tol
    /\ Abs(px[2] - bg[2]) < tol
    /\ Abs(px[3] - bg[3]) < tol

ClearedKeepingRGB(px, bg, tol) ==
    IF Matches(px, bg, tol) THEN <<px[1], px[2], px[3], 0>> ELSE px

\* lines 150-154: one pixel of the loop
Cleared(px, bg, tol) ==
    IF Matches(px, bg, tol) THEN Transparent ELSE px

\* lines 137-155, for each colour line 145 can pick
remove_background ==
    /\ last.op = "none"
    /\ \E c \in MostCommon(corners(img)) :
          /\ bg_color' = <<c[1], c[2], c[3]>>
          /\ out' = [p \in Pos |-> Cleared(img[p], <<c[1], c[2], c[3]>>, tolerance)]
    /\ last' = [NoOp EXCEPT !.op = "remove_background", !.result = "ok"]
    /\ UNCHANGED <<img, tolerance>>
    /\ UNCHANGED <<layout, tiles, outImage, outIndex, marker, clock>>

(***************************************************************************)
(* Specifications                                                          *)
(***************************************************************************)

SheetInputs == {<<0, 0>>, <<4, 4>>, <<5, 4>>}
AsmSheetInputs == {<<0, 0>>, <<4, 4>>, <<5, 4>>, <<4, 5>>}

IdleImage ==
    /\ img = [p \in Pos |-> Transparent]
    /\ tolerance = DefaultTolerance
    /\ bg_color = <<0, 0, 0>>
    /\ out = [p \in Pos |-> Transparent]

\* The pipeline: builds, generation runs and readiness checks in any order.
Init ==
    /\ layout \in PipelineLayouts
    /\ tiles \in TileDirs
    /\ outImage = AbsentImage
    /\ outIndex = AbsentIndex
    /\ marker \in InitMarkers
    /\ clock = 0
    /\ last = NoOp
    /\ IdleImage

Next ==
    \/ \E input \in SheetInputs, m \in BOOLEAN, f \in Faults :
          build_atlas_from_sheet(input, m, f)
    \/ \E m \in BOOLEAN, f \in Faults : build_atlas_from_tiles(m, f)
    \/ \E force \in BOOLEAN, provided \in 0..MaxSprites, raw \in RawSizes :
          generate_main(force, provided, raw)
    \/ check_ready

Spec == Init /\ [][Next]_vars

\* Assembly alone, over every manifest shape: builds that are not asked to
\* mark production and whose writes all succeed.
AsmTileDirs ==
    {[id \in Ids |-> NoTile],
     [id \in Ids |-> TileOf(SizeOfId(id))],
     [id \in Ids |-> TileOf(<<1, 2>>)]}

InitAsm ==
    /\ layout \in AsmLayouts
    /\ tiles \in AsmTileDirs
    /\ outImage = AbsentImage
    /\ outIndex = AbsentIndex
    /\ marker = AbsentMarker
    /\ clock = 0
    /\ last = NoOp
    /\ IdleImage

NextAsm ==
    \/ \E input \in AsmSheetInputs : build_atlas_from_sheet(input, FALSE, "none")
    \/ build_atlas_from_tiles(FALSE, "none")

SpecAsm == InitAsm /\ [][NextAsm]_vars

\* remove_background alone, over every image and tolerance.
InitBg ==
    /\ layout = [sheet |-> [width |-> 4, height |-> 4, scale |-> 2, cell |-> 2],
                 sprites |-> <<>>]
    /\ tiles = [id \in Ids |-> NoTile]
    /\ outImage = AbsentImage
    /\ outIndex = AbsentIndex
    /\ marker = AbsentMarker
    /\ clock = 0
    /\ last = NoOp
    /\ img \in Images
    /\ tolerance \in Tolerances
    /\ bg_color = <<0, 0, 0>>
    /\ out = img

NextBg == remove_background

SpecBg == InitBg /\ [][NextBg]_vars

(***************************************************************************)
(* Properties                                                              *)
(***************************************************************************)

Builds == {"tiles", "sheet"}
ValidationErrors == {"FileNotFoundError", "ValueError"}

\* a step that leaves the three output files as they were
OutputsUntouched ==
    /\ outImage' = outImage
    /\ outIndex' = outIndex
    /\ marker' = marker

\* the tile of `sprite` is missing or not exactly (w, h)
Offending(sprite, ts) ==
    \/ ~ts[sprite.id].exists
    \/ ts[sprite.id].size # <<sprite.w, sprite.h>>

\* C1: a build whose inputs fail validation raises and writes nothing: in
\* tile mode when any sprite of the manifest, at any position, has no tile
\* or a tile that is not exactly (w, h); in sheet mode when the sheet is
\* not exactly (sheet.width, sheet.height). The atlas image, the atlas
\* index and the marker are left as they were.
C1_InvalidInputsWriteNothing ==
    [][/\ (/\ last'.op = "tiles"
           /\ \E i \in 1..Len(layout.sprites) : Offending(layout.sprites[i], tiles))
          => (last'.result \in ValidationErrors /\ OutputsUntouched)
       /\ (/\ last'.op = "sheet"
           /\ last'.input # <<layout.sheet.width, layout.sheet.height>>)
          => (last'.result \in ValidationErrors /\ OutputsUntouched)]_vars

\* C1 witness: a tile build rejected for its second sprite, with the
\* outputs of an earlier good build still on disk.
C1_Witness ==
    /\ last.op = "tiles"
    /\ last.result = "ValueError"
    /\ Len(layout.sprites) = 2
    /\ ~Offending(layout.sprites[1], tiles)
    /\ Offending(layout.sprites[2], tiles)
    /\ outImage.st = "ok"
    /\ outIndex.st = "ok"

\* C2: no partial artifacts: a build that fails at any step, a failing
\* write of the image, the index or the marker included, leaves the image,
\* the index and the marker with their pre-build contents.
C2_NoPartialArtifacts ==
    [][(last'.op \in Builds /\ last'.result # "ok") => OutputsUntouched]_vars

UniqueIds(lay) ==
    \A i, j \in 1..Len(lay.sprites) :
        lay.sprites[i].id = lay.sprites[j].id => i = j

\* the manifest invariants of the data model
ValidManifest(lay) ==
    /\ lay.sheet.width % lay.sheet.scale = 0
    /\ lay.sheet.height % lay.sheet.scale = 0
    /\ lay.sheet.cell % lay.sheet.scale = 0
    /\ UniqueIds(lay)

\* C3: after a successful assembly on a valid manifest the index has
\* exactly one entry per manifest sprite id and no other key, with
\* x = col*cell/scale, y = row*cell/scale and w, h copied from the manifest.
C3_IndexEntries ==
    (last.op \in Builds /\ last.result = "ok" /\ ValidManifest(layout)) =>
        /\ outIndex.st = "ok"
        /\ DOMAIN outIndex.atlas = {layout.sprites[i].id : i \in 1..Len(layout.sprites)}
        /\ \A i \in 1..Len(layout.sprites) :
              LET s == layout.sprites[i]
                  e == outIndex.atlas[s.id]
              IN /\ e.x * layout.sheet.scale = s.col * layout.sheet.cell
                 /\ e.y * layout.sheet.scale = s.row * layout.sheet.cell
                 /\ e.w = s.w
                 /\ e.h = s.h

\* C3 witness: a successful tile build of two sprites, one of them placed
\* off the origin in x only.
C3_Witness ==
    /\ last.op = "tiles"
    /\ last.result = "ok"
    /\ ValidManifest(layout)
    /\ Len(layout.sprites) = 2
    /\ layout.sheet.scale = 2
    /\ \E i \in 1..2 :
          /\ layout.sprites[i].col = 2
          /\ layout.sprites[i].row = 0
          /\ outIndex.atlas[layout.sprites[i].id].x = 2
          /\ outIndex.atlas[layout.sprites[i].id].y = 0

\* C6: is_production_ready returns a boolean for every marker state and
\* never raises: true when the marker is an object whose production is
\* truthy, false in every other case (absent, not JSON, JSON that is no
\* object, production missing or falsy).
C6_IsReadyTotal ==
    last.op = "is_production_ready" =>
        last.result = IF marker.st = "object" /\ marker.production = "true"
                      THEN "true" ELSE "false"

HasNoTile(id) == ~tiles[id].exists
NotInIndex(id) == ~(outIndex.st = "ok" /\ id \in DOMAIN outIndex.atlas)
MarkerSaysReady == marker.st = "object" /\ marker.production = "true"

\* C7 (as amended): the set a generation run regenerates is every manifest
\* sprite id in manifest order when force-full is requested or the marker
\* is not ready, whichever tiles exist; otherwise it is exactly the
\* manifest sprite ids, in manifest order, whose tile file does not exist
\* in the tile directory.
C7_MissingFollowsTiles ==
    [][(last'.op = "generate" /\ last'.result # "AttributeError") =>
          last'.missing = IF last'.force \/ ~MarkerSaysReady
                          THEN sprite_ids(layout)
                          ELSE SelectSeq(sprite_ids(layout), HasNoTile)]_vars

\* C7 witness: an incremental run (marker ready, no force-full) that found
\* one of two tiles missing.
C7_Witness ==
    /\ last.op = "generate"
    /\ ~last.force
    /\ MarkerSaysReady
    /\ Len(layout.sprites) = 2
    /\ Len(last.missing) = 1

\* C7 (as claimed): when the marker is ready and force-full is not
\* requested the set is exactly the sprite ids not yet in the atlas index;
\* otherwise it is every manifest sprite id.
C7_MissingFollowsIndex ==
    [][(last'.op = "generate" /\ last'.result # "AttributeError") =>
          last'.missing = IF last'.force \/ ~MarkerSaysReady
                          THEN sprite_ids(layout)
                          ELSE SelectSeq(sprite_ids(layout), NotInIndex)]_vars

\* C8: the marker changes only in a build step asked to mark production
\* whose image and index have been written; that step replaces the whole
\* marker with production = true, a fresh timestamp and the descriptor of
\* the input used. A build without the flag, a failed build, a readiness
\* check and a generation run leave the marker unchanged.
C8_MarkerFrame ==
    [][/\ marker' # marker =>
             /\ last'.op \in Builds
             /\ last'.mark
             /\ outImage'.st = "ok" /\ outImage'.src = last'.op
             /\ outIndex' = [st |-> "ok", atlas |-> AtlasOf(layout)]
             /\ marker'.st = "object"
             /\ marker'.production = "true"
             /\ marker'.generated_at > clock
             /\ marker'.generated_at > marker.generated_at
             /\ marker'.source = last'.op
       /\ (last'.op \notin Builds \/ ~last'.mark \/ last'.result # "ok")
             => marker' = marker]_vars

\* C9: the assembler enforces the manifest invariants: a build on a
\* manifest with a repeated sprite id, or whose width, height or cell is
\* not divisible by scale, fails instead of producing an index or image.
C9_InvalidManifestRejected ==
    (last.op \in Builds /\ ~ValidManifest(layout)) => last.result # "ok"

\* a difference strictly below t / at most t, written without Abs
StrictlyNear(a, b, t) == a - b < t /\ b - a < t
InclusivelyNear(a, b, t) == a - b <= t /\ b - a <= t

Removed == last.op = "remove_background"

\* C4 (as amended): background removal with tolerance t clears a pixel to
\* (0,0,0,0) exactly when each of its R, G and B channels differs from the
\* background channel by strictly less than t, and leaves every other pixel
\* unchanged: with background (10,10,10) and t = 30 every pixel whose
\* channels all lie in 0..39 is cleared, a pixel with a channel of exactly
\* 40 is left unchanged, and (10,100,10) is left unchanged and opaque.
C4_StrictTolerance ==
    Removed =>
        /\ \A p \in Pos :
              out[p] = IF \A ch \in 1..3 :
                             StrictlyNear(img[p][ch], bg_color[ch], tolerance)
                       THEN <<0, 0, 0, 0>>
                       ELSE img[p]
        /\ (tolerance = 30 /\ bg_color = <<10, 10, 10>>) =>
              \A p \in Pos :
                 /\ (\A ch \in 1..3 : img[p][ch] \in 0..39) => out[p] = <<0, 0, 0, 0>>
                 /\ (\E ch \in 1..3 : img[p][ch] = 40) => out[p] = img[p]
                 /\ img[p] = <<10, 100, 10, 255>> => out[p] = <<10, 100, 10, 255>>

\* C4 witness: background (10,10,10), tolerance 30, with a pixel at
\* exactly 40 kept, a pixel inside the band cleared and (10,100,10) kept.
C4_Witness ==
    /\ Removed
    /\ tolerance = 30
    /\ bg_color = <<10, 10, 10>>
    /\ img[Probe] = <<40, 40, 40, 255>>
    /\ out[Probe] = <<40, 40, 40, 255>>
    /\ \E p \in Pos : img[p] = <<25, 0, 39, 255>> /\ out[p] = <<0, 0, 0, 0>>
    /\ \E p \in Pos : img[p] = <<10, 100, 10, 255>> /\ out[p] = <<10, 100, 10, 255>>

\* C4 (as claimed): the bound is inclusive: with background (10,10,10) and
\* t = 30 every pixel whose channels all lie in 0..40 is cleared.
C4_InclusiveTolerance ==
    (Removed /\ tolerance = 30 /\ bg_color = <<10, 10, 10>>) =>
        \A p \in Pos :
           (\A ch \in 1..3 : InclusivelyNear(img[p][ch], bg_color[ch], tolerance))
              => out[p] = <<0, 0, 0, 0>>

CornersTransparent == \A p \in CornerPos : img[p][4] = 0

\* C5 (as amended): on an image whose four corners are fully transparent,
\* background removal leaves unchanged every pixel that is not strictly
\* within the tolerance of the chosen corner colour's RGB on all three
\* channels, and rewrites every pixel that is to (0,0,0,0) whatever its
\* alpha; it is a no-op exactly when every such pixel already is (0,0,0,0).
C5_TransparentCorners ==
    (Removed /\ CornersTransparent) =>
        LET hit(p) == \A ch \in 1..3 :
                         StrictlyNear(img[p][ch], bg_color[ch], tolerance)
        IN /\ \A p \in Pos : ~hit(p) => out[p] = img[p]
           /\ \A p \in Pos : hit(p) => out[p] = <<0, 0, 0, 0>>
           /\ (out = img) <=> (\A p \in Pos : hit(p) => img[p] = <<0, 0, 0, 0>>)

\* C5 witness: transparent corners and an opaque pixel close to their RGB,
\* which the removal cleared.
C5_Witness ==
    /\ Removed
    /\ CornersTransparent
    /\ tolerance = 30
    /\ img[Probe] = <<10, 10, 10, 255>>
    /\ out[Probe] = <<0, 0, 0, 0>>

\* C5 (as claimed): background removal is a no-op on any image whose four
\* corners are fully transparent.
C5_NoOpOnTransparentCorners ==
    (Removed /\ CornersTransparent) => out = img

RGB(c) == <<c[1], c[2], c[3]>>

\* how often the colour of corner i occurs among the four corners
Occurrences(i) == Cardinality({j \in 1..4 : corners(img)[j] = corners(img)[i]})
MostFrequentCorner(i) == \A j \in 1..4 : Occurrences(j) <= Occurrences(i)

\* C10 (as amended): the background colour is the RGB of a colour of
\* maximal count among the four corners (top-left, top-right, bottom-left,
\* bottom-right); a colour that is strictly most frequent is always the
\* one chosen, and on a tie the chosen colour is one of the tied colours,
\* not necessarily the one sampled first.
C10_MostFrequentCorner ==
    Removed =>
        \E i \in 1..4 : MostFrequentCorner(i) /\ bg_color = RGB(corners(img)[i])

\* C10 witness: a 2-2 split in which the colour sampled second was chosen.
C10_Witness ==
    /\ Removed
    /\ corners(img)[1] = corners(img)[2]
    /\ corners(img)[3] = corners(img)[4]
    /\ RGB(corners(img)[1]) # RGB(corners(img)[3])
    /\ bg_color = RGB(corners(img)[3])

\* C10 (as claimed): on a tie the chosen colour is always the tied colour
\* that appears first in the sampling order.
C10_FirstSeenOnTie ==
    Removed =>
        LET first == CHOOSE i \in 1..4 :
                        /\ MostFrequentCorner(i)
                        /\ \A j \in 1..4 : MostFrequentCorner(j) => i <= j
        IN bg_color = RGB(corners(img)[first])

\* C11: for a manifest with unique sprite ids, after a generation run that
\* regenerates every sprite (force-full requested, or marker not ready)
\* completes without error, the tile directory holds for every manifest
\* sprite id a tile of exactly that sprite's (w, h): a tile-mode build that
\* follows passes the missing-tile and size checks for every sprite, and a
\* non-forced list_missing_tiles that follows returns the empty list.
C11_FullRunFeedsTileBuild ==
    (/\ last.op = "generate"
     /\ last.result = "ok"
     /\ (last.force \/ ~MarkerSaysReady)
     /\ UniqueIds(layout)) =>
        /\ \A i \in 1..Len(layout.sprites) :
              /\ tiles[layout.sprites[i].id].exists
              /\ tiles[layout.sprites[i].id].size
                    = <<layout.sprites[i].w, layout.sprites[i].h>>
        /\ CheckTiles(layout.sprites, tiles) = "ok"
        /\ list_missing_tiles(layout, tiles, FALSE) = <<>>

\* C11 witness: a full run over two sprites that completed.
C11_Witness ==
    /\ last.op = "generate"
    /\ last.result = "ok"
    /\ last.force
    /\ UniqueIds(layout)
    /\ Len(layout.sprites) = 2
    /\ last.missing = sprite_ids(layout)
    /\ CheckTiles(layout.sprites, tiles) = "ok"

====
